---- MODULE Spec2Model ----
(***************************************************************************)
(* Token screener: the watchlist store (src/lib/store.ts), the pair        *)
(* aggregator and the filter engine of the search screen                   *)
(* (src/unnamed/part_000) and the chain interleaver of the dashboard       *)
(* (src/components/screens/DashboardScreen.tsx).                           *)
(*                                                                         *)
(* JavaScript objects are records; an optional field that is undefined is  *)
(* a field the record does not have.  Strings the code only compares are   *)
(* TLA+ strings; strings the code converts (toLowerCase, parseFloat) are   *)
(* sequences of one-character strings.                                     *)
(***************************************************************************)
EXTENDS Integers, Sequences, FiniteSets, TLC

VARIABLES
    watchlist,        \* store.ts: TokenStore.watchlist
    now,              \* the value Date.now() returns
    pairs,            \* argument of transformPairsToTokens
    tokens,           \* value returned by transformPairsToTokens
    allTokens,        \* the token array handed to the filter
    filters,          \* the selected quick-filter names
    advancedFilters,  \* the AdvancedFilters object
    filtered,         \* value returned by the filter
    trendingPairs,    \* argument of interleavePairs
    blockchains,      \* chain list argument of interleavePairs
    result,           \* value returned by interleavePairs
    pc,               \* which call has completed
    rawToken,         \* argument of the addToWatchlist call under study
    debouncedQuery,   \* part_000: the debounced search text
    inflight,         \* loadTokens calls waiting for their responses
    issued,           \* number of loadTokens calls made so far
    loading,          \* the loading state of the screen
    refreshing,       \* part_000: refreshing state
    error,            \* part_000: error state
    settled,          \* the loadTokens call that finished last
    batch,            \* which Promise.all batch is running
    outcomes,         \* per request of the batch: its status and arrival rank
    stored,           \* what the batch handed to its state setter
    storage,          \* AsyncStorage: the value under the store's key
    pendingWrites,    \* AsyncStorage.setItem calls not yet completed
    hydration         \* the rehydration of the persist middleware

vars == <<watchlist, now, pairs, tokens, allTokens, filters, advancedFilters,
          filtered, trendingPairs, blockchains, result, pc, rawToken,
          debouncedQuery, inflight, issued, loading, refreshing, error, settled,
          batch, outcomes, stored, storage, pendingWrites, hydration>>

storeVars  == <<watchlist, now>>
aggVars    == <<pairs, tokens>>
filterVars == <<allTokens, filters, advancedFilters, filtered>>
interVars  == <<trendingPairs, blockchains, result>>
callVars   == <<rawToken>>
loadVars   == <<debouncedQuery, inflight, issued, loading, refreshing, error, settled>>
batchVars  == <<batch, outcomes, stored>>
persistVars == <<storage, pendingWrites, hydration>>
asyncVars  == <<callVars, loadVars, batchVars, persistVars>>

----------------------------------------------------------------------------
(* Bounds *)

MaxWatchlist == 3
MaxNow == 2
MaxPairs == 3

----------------------------------------------------------------------------
(* JavaScript helpers *)

Has(o, f) == f \in DOMAIN o

\* o.f when defined, else nothing: the record [name |-> o.f] or the empty record
Copy(name, o, f) == IF Has(o, f) THEN (name :> o[f]) ELSE <<>>

SeqToSet(s) == {s[i] : i \in 1..Len(s)}

RECURSIVE SumSeq(_)
SumSeq(s) == IF s = <<>> THEN 0 ELSE Head(s) + SumSeq(Tail(s))

\* String.prototype.toLowerCase on the letters the model uses
ToLowerChar(c) ==
    CASE c = "A" -> "a"
      [] c = "B" -> "b"
      [] c = "C" -> "c"
      [] c = "D" -> "d"
      [] OTHER -> c

ToLowerCase(s) == [i \in 1..Len(s) |-> ToLowerChar(s[i])]

Digits == {"0", "1", "2", "3", "4", "5", "6", "7", "8", "9"}

DigitVal(c) ==
    CASE c = "0" -> 0 [] c = "1" -> 1 [] c = "2" -> 2 [] c = "3" -> 3
      [] c = "4" -> 4 [] c = "5" -> 5 [] c = "6" -> 6 [] c = "7" -> 7
      [] c = "8" -> 8 [] c = "9" -> 9

RECURSIVE DigitPrefix(_)
DigitPrefix(s) ==
    IF s = <<>> \/ Head(s) \notin Digits THEN <<>>
    ELSE <<Head(s)>> \o DigitPrefix(Tail(s))

RECURSIVE DecimalValue(_)
DecimalValue(ds) ==
    IF ds = <<>> THEN 0
    ELSE 10 * DecimalValue(SubSeq(ds, 1, Len(ds) - 1)) + DigitVal(ds[Len(ds)])

\* parseFloat on unsigned integer literals: the longest prefix of digits is
\* converted, anything after it is ignored, and no leading digit gives NaN.
ParseFloat(s) ==
    LET ds == DigitPrefix(s)
    IN  IF ds = <<>> THEN [isNaN |-> TRUE, value |-> 0]
        ELSE [isNaN |-> FALSE, value |-> DecimalValue(ds)]

\* parseFloat(s) || other
ParseFloatOr(s, other) ==
    LET p == ParseFloat(s)
    IN  IF p.isNaN \/ p.value = 0 THEN other ELSE p.value

\* o.f?.h24 || 0
H24(o, f) == IF Has(o, f) /\ Has(o[f], "h24") THEN o[f].h24 ELSE 0

\* o.liquidity?.usd || 0
Usd(o) == IF Has(o, "liquidity") /\ Has(o.liquidity, "usd") THEN o.liquidity.usd ELSE 0

----------------------------------------------------------------------------
(* Watchlist store: src/lib/store.ts *)

\* Date.now().toString()
DateNowString == ToString(now)

\* token.pairAddress || token.id || Date.now().toString()
TokenId(token) ==
    IF Has(token, "pairAddress") /\ token.pairAddress # "" THEN token.pairAddress
    ELSE IF Has(token, "id") /\ token.id # "" THEN token.id
    ELSE DateNowString

\* token.baseToken?.symbol || token.symbol || "UNKNOWN"
SymbolOf(token) ==
    IF Has(token, "baseToken") /\ Has(token.baseToken, "symbol")
       /\ token.baseToken.symbol # ""
    THEN token.baseToken.symbol
    ELSE IF Has(token, "symbol") /\ token.symbol # "" THEN token.symbol
    ELSE "UNKNOWN"

\* parseFloat(token.priceUsd ?? '0') || token.price || 0
PriceOf(token) ==
    LET text == IF Has(token, "priceUsd") THEN token.priceUsd ELSE <<"0">>
        fallback == IF Has(token, "price") THEN token.price ELSE 0
    IN  ParseFloatOr(text, fallback)

\* token.priceChange?.h24 ?? token.priceChange24h ?? 0
PriceChange24hOf(token) ==
    IF Has(token, "priceChange") /\ Has(token.priceChange, "h24") THEN token.priceChange.h24
    ELSE IF Has(token, "priceChange24h") THEN token.priceChange24h
    ELSE 0

\* token.volume?.h24 ?? token.volume24h ?? 0
Volume24hOf(token) ==
    IF Has(token, "volume") /\ Has(token.volume, "h24") THEN token.volume.h24
    ELSE IF Has(token, "volume24h") THEN token.volume24h
    ELSE 0

NewToken(token) ==
    [id |-> TokenId(token),
     symbol |-> SymbolOf(token),
     price |-> PriceOf(token),
     priceChange24h |-> PriceChange24hOf(token),
     volume24h |-> Volume24hOf(token)]
    @@ (IF Has(token, "baseToken") /\ Has(token.baseToken, "name")
        THEN [name |-> token.baseToken.name]
        ELSE Copy("name", token, "name"))
    @@ Copy("marketCap", token, "marketCap")
    @@ (IF Has(token, "liquidity") /\ Has(token.liquidity, "usd")
        THEN [liquidity |-> token.liquidity.usd] ELSE <<>>)
    @@ Copy("pairAddress", token, "pairAddress")
    @@ Copy("baseToken", token, "baseToken")

\* watchlist.some((t) => t.id === tokenId)
IsInWatchlist(tokenId) == \E i \in 1..Len(watchlist) : watchlist[i].id = tokenId

\* the list addToWatchlist leaves without the early return of line 41
AddAlways(token) == Append(watchlist, NewToken(token))

\* the list addToWatchlist leaves when the new entry is put in front
AddFirst(token) ==
    IF IsInWatchlist(TokenId(token)) THEN watchlist
    ELSE <<NewToken(token)>> \o watchlist

\* the list addToWatchlist(token) leaves
AddResult(token) ==
    IF IsInWatchlist(TokenId(token)) THEN watchlist
    ELSE Append(watchlist, NewToken(token))

\* the list removeFromWatchlist leaves when the last entry fills the gap
RemoveBySwap(tokenId) ==
    LET n == Len(watchlist)
    IN  IF n > 0 /\ watchlist[n].id # tokenId
        THEN SelectSeq(<<watchlist[n]>> \o SubSeq(watchlist, 1, n - 1),
                       LAMBDA t : t.id # tokenId)
        ELSE SelectSeq(watchlist, LAMBDA t : t.id # tokenId)

\* the list removeFromWatchlist(tokenId) leaves
RemoveResult(tokenId) == SelectSeq(watchlist, LAMBDA t : t.id # tokenId)

\* The raw records handed to addToWatchlist: pairs of the dashboard, boosted
\* tokens, aggregated tokens of the search screen (address only), and
\* malformed records.
RawIdParts ==
    { <<>>, [pairAddress |-> "0xP1"], [pairAddress |-> "0xP2"], [id |-> "0xP1"],
      [id |-> "t1"], [pairAddress |-> "", id |-> "t1"],
      [pairAddress |-> "0xP1", id |-> "t1"], [id |-> "1"] }

RawPayloads ==
    { <<>>,
      [priceUsd |-> <<"a", "b", "c">>],
      [priceUsd |-> <<"5">>, price |-> 7, symbol |-> "SYM"],
      [priceUsd |-> <<"0">>, price |-> 7,
       baseToken |-> [symbol |-> "WBTC", name |-> "Wrapped", address |-> <<"A", "b">>],
       volume |-> [h24 |-> 10], priceChange |-> [h24 |-> 6],
       liquidity |-> [usd |-> 100], marketCap |-> 1000] }

RawTokens == { a @@ b : a \in RawIdParts, b \in RawPayloads }

WatchIds == {"0xP1", "0xP2", "t1"} \cup {ToString(n) : n \in 0..MaxNow}

addToWatchlist(token) ==
    /\ Len(AddResult(token)) <= MaxWatchlist
    /\ watchlist' = AddResult(token)
    /\ UNCHANGED <<now, aggVars, filterVars, interVars, pc, asyncVars>>

removeFromWatchlist(tokenId) ==
    /\ watchlist' = RemoveResult(tokenId)
    /\ UNCHANGED <<now, aggVars, filterVars, interVars, pc, asyncVars>>

\* a millisecond passes
Tick ==
    /\ now < MaxNow
    /\ now' = now + 1
    /\ UNCHANGED <<watchlist, aggVars, filterVars, interVars, pc, asyncVars>>

IdleAgg    == pairs = <<>> /\ tokens = <<>>
IdleFilter == allTokens = <<>> /\ filters = {} /\ advancedFilters = <<>> /\ filtered = <<>>
IdleInter  == trendingPairs = <<>> /\ blockchains = <<>> /\ result = <<>>
IdleCall   == rawToken = <<>>
IdleLoad   ==
    /\ debouncedQuery = <<>> /\ inflight = {} /\ issued = 0
    /\ loading = FALSE /\ refreshing = FALSE /\ error = "" /\ settled = <<>>
IdleBatch  == batch = "" /\ outcomes = <<>> /\ stored = <<>>
IdlePersist == storage = <<>> /\ pendingWrites = <<>> /\ hydration = <<>>
IdleAsync  == IdleCall /\ IdleLoad /\ IdleBatch /\ IdlePersist

InitStore ==
    /\ watchlist = <<>>
    /\ now = 0
    /\ IdleAgg /\ IdleFilter /\ IdleInter /\ IdleAsync
    /\ pc = "store"

NextStore ==
    \/ \E token \in RawTokens : addToWatchlist(token)
    \/ \E tokenId \in WatchIds : removeFromWatchlist(tokenId)
    \/ Tick

SpecStore == InitStore /\ [][NextStore]_vars

\* C1: no two entries of the watchlist share an id, and an add of a record
\* whose computed id is already present leaves the list unchanged.
C1_UniqueIds ==
    /\ \A i, j \in 1..Len(watchlist) :
          watchlist[i].id = watchlist[j].id => i = j
    /\ \A token \in RawTokens :
          (\E i \in 1..Len(watchlist) :
              watchlist[i].id = (IF Has(token, "pairAddress") /\ token.pairAddress # ""
                                 THEN token.pairAddress
                                 ELSE IF Has(token, "id") /\ token.id # "" THEN token.id
                                 ELSE ToString(now)))
          => AddResult(token) = watchlist

C1_Witness ==
    /\ Len(watchlist) = 2
    /\ watchlist[1].id = "0xP1"
    /\ watchlist[2].id = "t1"
    /\ AddResult([pairAddress |-> "0xP1", id |-> "t1"]) = watchlist

\* The store driven by records that differ in their id fields only: the
\* order of the entries does not depend on the rest of a record.
NextOrder ==
    \/ \E token \in RawIdParts : addToWatchlist(token)
    \/ \E tokenId \in WatchIds : removeFromWatchlist(tokenId)
    \/ Tick

SpecOrder == InitStore /\ [][NextOrder]_vars

\* t is s with some elements left out
RECURSIVE Embeds(_, _)
Embeds(t, s) ==
    IF t = <<>> THEN TRUE
    ELSE IF s = <<>> THEN FALSE
    ELSE IF Head(t) = Head(s) THEN Embeds(Tail(t), Tail(s))
    ELSE Embeds(t, Tail(s))

\* C16: the watchlist is in insertion order.  The add of a record whose id
\* is absent leaves a list one entry longer, whose last entry carries that id
\* and whose other entries are the entries of the list before, each at its
\* position.
C16_InsertionOrder ==
    \A token \in RawTokens :
        LET tokenId == IF Has(token, "pairAddress") /\ token.pairAddress # ""
                       THEN token.pairAddress
                       ELSE IF Has(token, "id") /\ token.id # "" THEN token.id
                       ELSE ToString(now)
            after == AddResult(token)
        IN  ~(\E i \in 1..Len(watchlist) : watchlist[i].id = tokenId)
            => /\ Len(after) = Len(watchlist) + 1
               /\ SubSeq(after, 1, Len(watchlist)) = watchlist
               /\ after[Len(after)].id = tokenId

C16_Witness ==
    /\ Len(watchlist) = 3
    /\ watchlist[1].id = "t1"
    /\ watchlist[2].id = "0xP2"
    /\ watchlist[3].id = "0xP1"
    /\ Len(AddResult([id |-> "1"])) = 4

\* C17: removeFromWatchlist(id) leaves no entry with that id, keeps every
\* other entry and their relative order, leaves a list without the id as it
\* is, and isInWatchlist(id) is false afterwards.
C17_RemoveExactly ==
    \A tokenId \in WatchIds :
        LET after == RemoveResult(tokenId)
            hits == {i \in 1..Len(watchlist) : watchlist[i].id = tokenId}
        IN  /\ \A i \in 1..Len(after) : after[i].id # tokenId
            /\ Len(after) = Len(watchlist) - Cardinality(hits)
            /\ Embeds(after, watchlist)
            /\ hits = {} => after = watchlist

C17_Witness ==
    /\ Len(watchlist) = 3
    /\ watchlist[1].id = "0xP1"
    /\ watchlist[2].id = "t1"
    /\ watchlist[3].id = "0xP2"
    /\ Len(RemoveResult("t1")) = 2
    /\ RemoveResult("0") = watchlist

\* C18: the id an add computes is the record's pairAddress, else its id, else
\* a generated string; the generated string is not empty and differs from
\* the id of every entry the watchlist already holds.
C18_GeneratedIdIsFresh ==
    \A token \in RawTokens :
        LET tokenId == NewToken(token).id
            hasPairAddress == Has(token, "pairAddress") /\ token.pairAddress # ""
            hasId == Has(token, "id") /\ token.id # ""
        IN  /\ hasPairAddress => tokenId = token.pairAddress
            /\ ~hasPairAddress /\ hasId => tokenId = token.id
            /\ ~hasPairAddress /\ ~hasId =>
                  /\ tokenId # ""
                  /\ \A i \in 1..Len(watchlist) : watchlist[i].id # tokenId

----------------------------------------------------------------------------
(* One call of addToWatchlist on a fresh store: normalization of the record *)

InitAdd ==
    /\ watchlist = <<>>
    /\ now \in 0..MaxNow
    /\ rawToken \in RawTokens
    /\ IdleAgg /\ IdleFilter /\ IdleInter
    /\ IdleLoad /\ IdleBatch /\ IdlePersist
    /\ pc = "ready"

AddCall ==
    /\ pc = "ready"
    /\ watchlist' = AddResult(rawToken)
    /\ pc' = "added"
    /\ UNCHANGED <<now, rawToken, aggVars, filterVars, interVars,
                   loadVars, batchVars, persistVars>>

NextAdd == AddCall

SpecAdd == InitAdd /\ [][NextAdd]_vars

\* C19: the price of the stored entry is the parsed value of raw.priceUsd
\* whenever the field is present and parses, zero included; otherwise it is
\* raw.price, else 0; it is a number in every case.
C19_ParsedPrice ==
    pc = "added" =>
        LET parsed == IF Has(rawToken, "priceUsd")
                      THEN ParseFloat(rawToken.priceUsd)
                      ELSE [isNaN |-> TRUE, value |-> 0]
        IN  /\ watchlist[1].price \in Int
            /\ watchlist[1].price =
                  (IF ~parsed.isNaN THEN parsed.value
                   ELSE IF Has(rawToken, "price") THEN rawToken.price
                   ELSE 0)

----------------------------------------------------------------------------
(* Two calls of addToWatchlist with the same raw record, on any watchlist  *)
(* the store can hold, with any time passing before and between the calls  *)

InitTwice ==
    /\ watchlist = <<>>
    /\ now = 0
    /\ rawToken = <<>>
    /\ IdleAgg /\ IdleFilter /\ IdleInter
    /\ IdleLoad /\ IdleBatch /\ IdlePersist
    /\ pc = "store"

\* the first call; result keeps the list it leaves
FirstAdd(token) ==
    /\ pc = "store"
    /\ Len(AddResult(token)) <= MaxWatchlist
    /\ watchlist' = AddResult(token)
    /\ rawToken' = token
    /\ result' = AddResult(token)
    /\ pc' = "once"
    /\ UNCHANGED <<now, aggVars, filterVars, trendingPairs, blockchains,
                   loadVars, batchVars, persistVars>>

\* the second call, with the record of the first
SecondAdd ==
    /\ pc = "once"
    /\ watchlist' = AddResult(rawToken)
    /\ pc' = "twice"
    /\ UNCHANGED <<now, rawToken, aggVars, filterVars, interVars,
                   loadVars, batchVars, persistVars>>

NextTwice ==
    \/ pc = "store" /\ \E token \in RawIdParts : addToWatchlist(token)
    \/ \E token \in RawTokens : FirstAdd(token)
    \/ pc # "twice" /\ Tick
    \/ SecondAdd

SpecTwice == InitTwice /\ [][NextTwice]_vars

\* C23: addToWatchlist is idempotent on the same raw record: after two calls
\* with the record the watchlist is the list the first call left.
C23_AddTwiceIsAddOnce ==
    pc = "twice" => watchlist = result

----------------------------------------------------------------------------
(* Aggregator: transformPairsToTokens, src/unnamed/part_000 *)

Without(o, f) == [x \in DOMAIN o \ {f} |-> o[x]]

\* o.name = src.f, which leaves o.name undefined when src.f is undefined
Assign(o, name, src, f) ==
    IF Has(src, f) THEN (name :> src[f]) @@ o ELSE Without(o, name)

\* the key without toLowerCase
RawAddress(token) ==
    IF Has(token, "address") THEN token.address ELSE <<>>

\* token.address?.toLowerCase(); the empty string stands for every falsy key
TokenAddress(token) ==
    IF Has(token, "address") THEN ToLowerCase(token.address) ELSE <<>>

\* the volume that replaces the total instead of adding to it
LastVolume(existingToken, pair) == H24(pair, "volume")

\* existingVolume + newVolume
MergedVolume(existingToken, pair) == H24(existingToken, "volume") + H24(pair, "volume")

\* existingLiquidity + newLiquidity
MergedLiquidity(existingToken, pair) == Usd(existingToken) + Usd(pair)

\* a merge that takes the price data of every later pair
MergePairTakeLast(existingToken, pair) ==
    LET summed == [volume |-> [h24 |-> MergedVolume(existingToken, pair)],
                   liquidity |-> [usd |-> MergedLiquidity(existingToken, pair)]]
                  @@ existingToken
    IN  Assign(Assign(summed, "priceUsd", pair, "priceUsd"),
               "priceChange", pair, "priceChange")

\* the branch of lines 123-137: aggregate a further pair into existingToken
MergePair(existingToken, pair) ==
    LET existingLiquidity == Usd(existingToken)
        newLiquidity == Usd(pair)
        summed == [volume |-> [h24 |-> MergedVolume(existingToken, pair)],
                   liquidity |-> [usd |-> MergedLiquidity(existingToken, pair)]]
                  @@ existingToken
    IN  IF newLiquidity > existingLiquidity
        THEN Assign(Assign(summed, "priceUsd", pair, "priceUsd"),
                    "priceChange", pair, "priceChange")
        ELSE summed

\* the branch of lines 138-152: the token created from the first pair
CreateToken(pair) ==
    LET token == pair.baseToken
    IN  [verified |-> (Has(token, "verified") /\ token.verified)]
        @@ Copy("address", token, "address")
        @@ Copy("symbol", token, "symbol")
        @@ Copy("name", token, "name")
        @@ Copy("logoUri", token, "logoUri")
        @@ Copy("priceUsd", pair, "priceUsd")
        @@ Copy("priceChange", pair, "priceChange")
        @@ Copy("volume", pair, "volume")
        @@ Copy("marketCap", pair, "marketCap")
        @@ Copy("liquidity", pair, "liquidity")

\* One iteration that stores a pair without a base-token address as a token
\* of its own instead of skipping it
ForEachPairUnchecked(tokenMap, pair) ==
    IF ~Has(pair, "baseToken") \/ TokenAddress(pair.baseToken) = <<>>
    THEN Append(tokenMap, [key |-> <<>>, value |-> pair])
    ELSE LET tokenAddress == TokenAddress(pair.baseToken)
             hits == {i \in 1..Len(tokenMap) : tokenMap[i].key = tokenAddress}
         IN  IF hits # {}
             THEN LET i == CHOOSE h \in hits : TRUE
                  IN  [tokenMap EXCEPT ![i].value = MergePair(tokenMap[i].value, pair)]
             ELSE Append(tokenMap, [key |-> tokenAddress, value |-> CreateToken(pair)])

\* One iteration of pairs.forEach; tokenMap is the Map as the sequence of its
\* entries in insertion order.
ForEachPair(tokenMap, pair) ==
    IF ~Has(pair, "baseToken") THEN tokenMap
    ELSE LET tokenAddress == TokenAddress(pair.baseToken)
             hits == {i \in 1..Len(tokenMap) : tokenMap[i].key = tokenAddress}
         IN  IF tokenAddress = <<>> THEN tokenMap
             ELSE IF hits # {}
             THEN LET i == CHOOSE h \in hits : TRUE
                  IN  [tokenMap EXCEPT ![i].value = MergePair(tokenMap[i].value, pair)]
             ELSE Append(tokenMap, [key |-> tokenAddress, value |-> CreateToken(pair)])

RECURSIVE TokenMapOf(_)
TokenMapOf(ps) ==
    IF ps = <<>> THEN <<>>
    ELSE ForEachPair(TokenMapOf(SubSeq(ps, 1, Len(ps) - 1)), ps[Len(ps)])

\* Array.from(tokenMap.values())
transformPairsToTokens(ps) ==
    LET tokenMap == TokenMapOf(ps)
    IN  [i \in 1..Len(tokenMap) |-> tokenMap[i].value]

\* The pairs a search returns: what distinguishes one pair from another
\* (pairAddress, priceUsd, priceChange) is fixed by its position, the rest
\* is drawn from PairShapes.
BaseTokens ==
    { [address |-> <<"A", "b">>, symbol |-> "AB", name |-> "Token AB", verified |-> TRUE],
      [address |-> <<"a", "B">>, symbol |-> "ab"],
      [address |-> <<"c", "d">>, symbol |-> "CD", name |-> "Token CD"] }

\* volume and liquidity as one search result reports them
PairMarkets ==
    { [liquidity |-> [usd |-> 300]],
      [volume |-> [h24 |-> 10], liquidity |-> [usd |-> 100]],
      [volume |-> [h24 |-> 20], liquidity |-> [usd |-> 500]],
      [volume |-> [h24 |-> 10]] }

PairShapes ==
    { [volume |-> [h24 |-> 10], liquidity |-> [usd |-> 500]],
      [baseToken |-> [symbol |-> "NOADDR"], volume |-> [h24 |-> 10],
       liquidity |-> [usd |-> 500]] }
    \cup { [baseToken |-> b] @@ m : b \in BaseTokens, m \in PairMarkets }

Stamp(i) ==
    [pairAddress |-> ToString(i), priceUsd |-> <<ToString(i)>>, priceChange |-> [h24 |-> i]]

StampAll(shape) == [i \in 1..Len(shape) |-> shape[i] @@ Stamp(i)]

IdleStore == watchlist = <<>> /\ now = 0

InitAgg ==
    /\ \E n \in 0..MaxPairs : \E shape \in [1..n -> PairShapes] : pairs = StampAll(shape)
    /\ tokens = <<>>
    /\ IdleStore /\ IdleFilter /\ IdleInter /\ IdleAsync
    /\ pc = "ready"

TransformPairs ==
    /\ pc = "ready"
    /\ tokens' = transformPairsToTokens(pairs)
    /\ pc' = "transformed"
    /\ UNCHANGED <<pairs, storeVars, filterVars, interVars, asyncVars>>

NextAgg == TransformPairs

SpecAgg == InitAgg /\ [][NextAgg]_vars

\* the pairs that have a base token with an address
ValidPair(i) ==
    /\ Has(pairs[i], "baseToken")
    /\ Has(pairs[i].baseToken, "address")
    /\ pairs[i].baseToken.address # <<>>

LowerKey(i) == ToLowerCase(pairs[i].baseToken.address)

Contributing(key) == {i \in 1..Len(pairs) : ValidPair(i) /\ LowerKey(i) = key}

FirstIndex(key) ==
    CHOOSE i \in Contributing(key) : \A j \in Contributing(key) : i <= j

\* C2: the aggregator returns exactly one token for each distinct lower-cased
\* base-token address of the input, in the order of first occurrence.
C2_OnePerAddress ==
    pc = "transformed" =>
        LET keys == {LowerKey(i) : i \in {j \in 1..Len(pairs) : ValidPair(j)}}
            keyOf(k) == ToLowerCase(tokens[k].address)
        IN  /\ Len(tokens) = Cardinality(keys)
            /\ {keyOf(k) : k \in 1..Len(tokens)} = keys
            /\ \A k, l \in 1..Len(tokens) :
                  k < l => FirstIndex(keyOf(k)) < FirstIndex(keyOf(l))

C2_Witness ==
    /\ pc = "transformed"
    /\ Len(pairs) = 3
    /\ \A i \in 1..3 : ValidPair(i)
    /\ pairs[1].baseToken.address = <<"A", "b">>
    /\ pairs[2].baseToken.address = <<"c", "d">>
    /\ pairs[3].baseToken.address = <<"a", "B">>
    /\ Len(tokens) = 2
    /\ tokens[1].address = <<"A", "b">>
    /\ tokens[2].address = <<"c", "d">>

PermutedPairs(perm) == [i \in 1..Len(pairs) |-> pairs[perm[i]]]

\* C3: a token's 24h volume is the sum of volume.h24 (absent counted as 0)
\* over the input pairs with its lower-cased address, and every permutation
\* of the input gives the same total.
C3_VolumeSum ==
    pc = "transformed" =>
        \A k \in 1..Len(tokens) :
            LET key == ToLowerCase(tokens[k].address)
                total == SumSeq([i \in 1..Len(pairs) |->
                            IF i \in Contributing(key)
                            THEN (IF Has(pairs[i], "volume") THEN pairs[i].volume.h24 ELSE 0)
                            ELSE 0])
            IN  /\ H24(tokens[k], "volume") = total
                /\ \A perm \in Permutations(1..Len(pairs)) :
                      \E t \in SeqToSet(transformPairsToTokens(PermutedPairs(perm))) :
                          /\ ToLowerCase(t.address) = key
                          /\ H24(t, "volume") = total

C3_Witness ==
    /\ pc = "transformed"
    /\ Len(pairs) = 3
    /\ \A i \in 1..3 : ValidPair(i) /\ LowerKey(i) = <<"a", "b">>
    /\ Has(pairs[1], "volume") /\ ~Has(pairs[2], "volume") /\ Has(pairs[3], "volume")
    /\ Len(tokens) = 1
    /\ tokens[1].volume.h24 = 30

\* the first contributing pair among those with the greatest liquidity.usd
DeepestPair(key) ==
    CHOOSE i \in Contributing(key) :
        /\ \A j \in Contributing(key) : Usd(pairs[j]) <= Usd(pairs[i])
        /\ \A j \in Contributing(key) : Usd(pairs[j]) = Usd(pairs[i]) => i <= j

\* C4: the token's final priceUsd is the priceUsd of the contributing pair
\* whose own liquidity.usd is maximal, the first-seen one when liquidity ties.
C4_PriceOfDeepestPair ==
    pc = "transformed" =>
        \A k \in 1..Len(tokens) :
            tokens[k].priceUsd = pairs[DeepestPair(ToLowerCase(tokens[k].address))].priceUsd

\* C21: when exactly two pairs of the input belong to a base token and their
\* liquidity.usd differs, in whichever order they come, the token's priceUsd
\* and priceChange are those of the pair with the higher liquidity.
C21_TwoPairsHigherLiquidity ==
    pc = "transformed" =>
        \A k \in 1..Len(tokens) :
            LET mine == {i \in 1..Len(pairs) :
                            /\ "baseToken" \in DOMAIN pairs[i]
                            /\ "address" \in DOMAIN pairs[i].baseToken
                            /\ ToLowerCase(pairs[i].baseToken.address)
                                  = ToLowerCase(tokens[k].address)}
                usd(i) == IF "liquidity" \in DOMAIN pairs[i] THEN pairs[i].liquidity.usd
                          ELSE 0
            IN  \A i, j \in mine :
                    (mine = {i, j} /\ usd(i) > usd(j))
                    => /\ tokens[k].priceUsd = pairs[i].priceUsd
                       /\ tokens[k].priceChange = pairs[i].priceChange

C21_Witness ==
    /\ pc = "transformed"
    /\ Len(pairs) = 3
    /\ ValidPair(1) /\ ValidPair(3) /\ LowerKey(1) = LowerKey(3)
    /\ ValidPair(2) /\ LowerKey(2) # LowerKey(1)
    /\ Usd(pairs[1]) = 100 /\ Usd(pairs[3]) = 500
    /\ Len(tokens) = 2
    /\ tokens[1].priceUsd = <<"3">>
    /\ tokens[1].priceChange.h24 = 3

\* C20: a pair without a baseToken, or whose baseToken has no address, is
\* skipped: the aggregator returns what it returns on the same input with
\* every such pair removed.
C20_MalformedSkipped ==
    pc = "transformed" =>
        LET wellFormed == {i \in 1..Len(pairs) :
                              /\ "baseToken" \in DOMAIN pairs[i]
                              /\ "address" \in DOMAIN pairs[i].baseToken
                              /\ pairs[i].baseToken.address # <<>>}
            kept == SelectSeq([i \in 1..Len(pairs) |-> [index |-> i, pair |-> pairs[i]]],
                              LAMBDA e : e.index \in wellFormed)
        IN  tokens = transformPairsToTokens([k \in 1..Len(kept) |-> kept[k].pair])

C20_Witness ==
    /\ pc = "transformed"
    /\ Len(pairs) = 3
    /\ ValidPair(1) /\ ValidPair(3) /\ LowerKey(1) = LowerKey(3)
    /\ Has(pairs[2], "baseToken") /\ ~Has(pairs[2].baseToken, "address")
    /\ Len(tokens) = 1
    /\ tokens[1].volume.h24 = 30

----------------------------------------------------------------------------
(* Filter engine: applyFilters and filteredResults, src/unnamed/part_000 *)

MaxTokens == 3

HighVolumeThreshold == 100000
GainerThreshold == 5
LoserThreshold == -5

\* useState initial value of advancedFilters, lines 67-79
DefaultAdvancedFilters ==
    [minPrice |-> 0, maxPrice |-> 1000,
     minVolume |-> 0, maxVolume |-> 10000000,
     minMarketCap |-> 0, maxMarketCap |-> 1000000000,
     minLiquidity |-> 0, maxLiquidity |-> 10000000,
     onlyVerified |-> FALSE,
     minPriceChange |-> -100, maxPriceChange |-> 100]

\* the value resetFilters stores, lines 310-322
ResetAdvancedFilters ==
    [minPrice |-> 0, maxPrice |-> 1000,
     minVolume |-> 0, maxVolume |-> 10000000,
     minMarketCap |-> 0, maxMarketCap |-> 1000000000,
     minLiquidity |-> 0, maxLiquidity |-> 10000000,
     onlyVerified |-> FALSE,
     minPriceChange |-> -100, maxPriceChange |-> 100]

\* (t) => t.symbol
HasSymbol(t) == Has(t, "symbol") /\ t.symbol # ""

\* parseFloat(token.priceUsd) || 0
PriceNumber(token) ==
    IF Has(token, "priceUsd") THEN ParseFloatOr(token.priceUsd, 0) ELSE 0

\* token.marketCap || 0
MarketCapNumber(token) == IF Has(token, "marketCap") THEN token.marketCap ELSE 0

\* token.verified as a condition
IsVerified(token) == Has(token, "verified") /\ token.verified

\* the callback of the advanced filter, lines 172-192 and 274-294
AdvancedPass(token, advanced) ==
    LET price == PriceNumber(token)
        volume == H24(token, "volume")
        marketCap == MarketCapNumber(token)
        liquidity == Usd(token)
        priceChange == H24(token, "priceChange")
    IN  /\ price >= advanced.minPrice
        /\ price <= advanced.maxPrice
        /\ volume >= advanced.minVolume
        /\ volume <= advanced.maxVolume
        /\ marketCap >= advanced.minMarketCap
        /\ marketCap <= advanced.maxMarketCap
        /\ liquidity >= advanced.minLiquidity
        /\ liquidity <= advanced.maxLiquidity
        /\ priceChange >= advanced.minPriceChange
        /\ priceChange <= advanced.maxPriceChange
        /\ (~advanced.onlyVerified \/ IsVerified(token))

\* a sort that puts a token before the tokens of equal volume
RECURSIVE InsertBeforeTies(_, _)
InsertBeforeTies(sorted, t) ==
    IF sorted = <<>> THEN <<t>>
    ELSE IF H24(t, "volume") - H24(Head(sorted), "volume") >= 0
         THEN <<t>> \o sorted
         ELSE <<Head(sorted)>> \o InsertBeforeTies(Tail(sorted), t)

\* Array.prototype.sort is stable: t goes before the first element that the
\* comparator (a, b) => (b.volume?.h24 || 0) - (a.volume?.h24 || 0) puts after it
RECURSIVE InsertByVolume(_, _)
InsertByVolume(sorted, t) ==
    IF sorted = <<>> THEN <<t>>
    ELSE IF H24(t, "volume") - H24(Head(sorted), "volume") > 0
         THEN <<t>> \o sorted
         ELSE <<Head(sorted)>> \o InsertByVolume(Tail(sorted), t)

RECURSIVE SortByVolume(_)
SortByVolume(s) ==
    IF s = <<>> THEN <<>>
    ELSE InsertByVolume(SortByVolume(SubSeq(s, 1, Len(s) - 1)), s[Len(s)])

\* (t) => (t.volume?.h24 || 0) > 100000
IsHighVolume(t) == H24(t, "volume") > HighVolumeThreshold

\* (t) => (t.priceChange?.h24 || 0) > 5
IsTopGainer(t) == H24(t, "priceChange") > GainerThreshold

\* (t) => (t.priceChange?.h24 || 0) < -5
IsTopLoser(t) == H24(t, "priceChange") < LoserThreshold

\* applyFilters(tokens, filters, advanced), lines 158-195
applyFilters(tks, names, advanced) ==
    LET f0 == tks
        f1 == IF "High Volume" \in names THEN SelectSeq(f0, IsHighVolume) ELSE f0
        f2 == IF "Top Gainers" \in names THEN SelectSeq(f1, IsTopGainer) ELSE f1
        f3 == IF "Top Losers" \in names THEN SelectSeq(f2, IsTopLoser) ELSE f2
        f4 == SelectSeq(f3, LAMBDA t : AdvancedPass(t, advanced))
    IN  SortByVolume(f4)

\* the useMemo callback of filteredResults, lines 247-298
filteredResults(tks, names, advanced) ==
    LET f0 == tks
        f1 == IF "High Volume" \in names THEN SelectSeq(f0, IsHighVolume) ELSE f0
        f2 == IF "Top Gainers" \in names THEN SelectSeq(f1, IsTopGainer) ELSE f1
        f3 == IF "Top Losers" \in names THEN SelectSeq(f2, IsTopLoser) ELSE f2
        f4 == IF "New Listings" \in names THEN SelectSeq(f3, HasSymbol) ELSE f3
        f5 == IF "DeFi" \in names THEN SelectSeq(f4, HasSymbol) ELSE f4
        f6 == IF "Meme" \in names THEN SelectSeq(f5, HasSymbol) ELSE f5
        f7 == SelectSeq(f6, LAMBDA t : AdvancedPass(t, advanced))
    IN  SortByVolume(f7)

\* The array passed in, after the call: both functions copy it ([...tokens])
\* and sort the array the last filter() returned, so it is left as it was.
ArgumentAfter(tks) == tks

FilterTokens ==
    { [address |-> <<"a", "1">>, symbol |-> "BTC", priceUsd |-> <<"6", "0", "0", "0", "0">>,
       priceChange |-> [h24 |-> 6], volume |-> [h24 |-> 100001], marketCap |-> 1000,
       liquidity |-> [usd |-> 500], verified |-> TRUE],
      [address |-> <<"a", "2">>, symbol |-> "ETH", priceUsd |-> <<"5">>,
       priceChange |-> [h24 |-> 6], volume |-> [h24 |-> 100001], marketCap |-> 1000,
       liquidity |-> [usd |-> 500], verified |-> TRUE],
      [address |-> <<"a", "3">>, priceUsd |-> <<"5">>,
       priceChange |-> [h24 |-> 6], volume |-> [h24 |-> 100001], marketCap |-> 1000,
       liquidity |-> [usd |-> 500], verified |-> FALSE],
      [address |-> <<"a", "4">>, symbol |-> "USDC", priceUsd |-> <<"1">>,
       priceChange |-> [h24 |-> 5], volume |-> [h24 |-> 100000], marketCap |-> 1000,
       liquidity |-> [usd |-> 500], verified |-> TRUE],
      [address |-> <<"a", "5">>, symbol |-> "DOGE", priceUsd |-> <<"a", "b", "c">>,
       priceChange |-> [h24 |-> -6]],
      [address |-> <<"a", "6">>, symbol |-> "SOL", priceUsd |-> <<"1", "0", "0", "0">>,
       priceChange |-> [h24 |-> -5], volume |-> [h24 |-> 10000000], marketCap |-> 1000,
       liquidity |-> [usd |-> 500], verified |-> FALSE],
      [address |-> <<"a", "7">>, symbol |-> "USDT", priceUsd |-> <<"1">>,
       volume |-> [h24 |-> 10000001], liquidity |-> [usd |-> 500], verified |-> TRUE] }

QuickFilterSets ==
    SUBSET {"High Volume", "Top Gainers", "Top Losers", "Meme"}
    \cup { {"New Listings"}, {"DeFi"} }

AdvancedFilterSets ==
    { DefaultAdvancedFilters,
      [DefaultAdvancedFilters EXCEPT !.onlyVerified = TRUE],
      [minPrice |-> 1, maxPrice |-> 5,
       minVolume |-> 100000, maxVolume |-> 100001,
       minMarketCap |-> 1000, maxMarketCap |-> 1000,
       minLiquidity |-> 500, maxLiquidity |-> 500,
       onlyVerified |-> FALSE,
       minPriceChange |-> 5, maxPriceChange |-> 6] }

InitFilter ==
    /\ \E n \in 0..MaxTokens : allTokens \in [1..n -> FilterTokens]
    /\ filters \in QuickFilterSets
    /\ advancedFilters \in AdvancedFilterSets
    /\ filtered = <<>>
    /\ IdleStore /\ IdleAgg /\ IdleInter /\ IdleAsync
    /\ pc = "ready"

ApplyFiltersCall ==
    /\ pc = "ready"
    /\ filtered' = applyFilters(allTokens, filters, advancedFilters)
    /\ allTokens' = ArgumentAfter(allTokens)
    /\ pc' = "applyFilters"
    /\ UNCHANGED <<filters, advancedFilters, storeVars, aggVars, interVars, asyncVars>>

FilteredResultsCall ==
    /\ pc = "ready"
    /\ filtered' = filteredResults(allTokens, filters, advancedFilters)
    /\ allTokens' = ArgumentAfter(allTokens)
    /\ pc' = "filteredResults"
    /\ UNCHANGED <<filters, advancedFilters, storeVars, aggVars, interVars, asyncVars>>

\* resetFilters, lines 308-323
ResetFilters ==
    /\ pc = "ready"
    /\ filters # {}
    /\ filters' = {}
    /\ advancedFilters' = ResetAdvancedFilters
    /\ UNCHANGED <<allTokens, filtered, pc, storeVars, aggVars, interVars, asyncVars>>

NextFilter == ApplyFiltersCall \/ FilteredResultsCall \/ ResetFilters

SpecFilter == InitFilter /\ [][NextFilter]_vars

Filtered == pc \in {"applyFilters", "filteredResults"}

Count(s, t) == Cardinality({i \in 1..Len(s) : s[i] = t})

\* the predicate of the filter contract
Retained(t) ==
    /\ "High Volume" \in filters => H24(t, "volume") > 100000
    /\ "Top Gainers" \in filters => H24(t, "priceChange") > 5
    /\ "Top Losers" \in filters => H24(t, "priceChange") < -5
    /\ filters \cap {"New Listings", "DeFi", "Meme"} # {}
          => (Has(t, "symbol") /\ t.symbol # "")
    /\ LET price == IF Has(t, "priceUsd") THEN ParseFloatOr(t.priceUsd, 0) ELSE 0
           marketCap == IF Has(t, "marketCap") THEN t.marketCap ELSE 0
       IN  /\ advancedFilters.minPrice <= price /\ price <= advancedFilters.maxPrice
           /\ advancedFilters.minVolume <= H24(t, "volume")
           /\ H24(t, "volume") <= advancedFilters.maxVolume
           /\ advancedFilters.minMarketCap <= marketCap
           /\ marketCap <= advancedFilters.maxMarketCap
           /\ advancedFilters.minLiquidity <= Usd(t)
           /\ Usd(t) <= advancedFilters.maxLiquidity
           /\ advancedFilters.minPriceChange <= H24(t, "priceChange")
           /\ H24(t, "priceChange") <= advancedFilters.maxPriceChange
    /\ advancedFilters.onlyVerified => (Has(t, "verified") /\ t.verified)

\* C5: the filter output contains exactly the input tokens that satisfy every
\* selected quick-filter predicate, every advanced range and the verified flag.
C5_ExactlyRetained ==
    Filtered =>
        \A t \in FilterTokens :
            Count(filtered, t) = (IF Retained(t) THEN Count(allTokens, t) ELSE 0)

RECURSIVE IsSubSeq(_, _)
IsSubSeq(a, b) ==
    IF a = <<>> THEN TRUE
    ELSE IF b = <<>> THEN FALSE
    ELSE IF Head(a) = Head(b) THEN IsSubSeq(Tail(a), Tail(b))
    ELSE IsSubSeq(a, Tail(b))

WithVolume(s, v) == SelectSeq(s, LAMBDA t : H24(t, "volume") = v)

\* C6: the filter returns a sequence sorted by descending 24h volume in which
\* tokens of equal volume keep their input order, and leaves its input as it was.
C6_SortedStable ==
    /\ [](Filtered =>
            /\ \A i, j \in 1..Len(filtered) :
                  i < j => H24(filtered[i], "volume") >= H24(filtered[j], "volume")
            /\ \A t \in FilterTokens : Count(filtered, t) <= Count(allTokens, t)
            /\ \A t \in FilterTokens :
                  IsSubSeq(WithVolume(filtered, H24(t, "volume")),
                           WithVolume(allTokens, H24(t, "volume"))))
    /\ [][allTokens' = allTokens]_vars

C6_Witness ==
    /\ pc = "applyFilters"
    /\ filters = {}
    /\ Len(allTokens) = 3
    /\ allTokens[1].address = <<"a", "4">>
    /\ allTokens[2].address = <<"a", "2">>
    /\ allTokens[3].address = <<"a", "3">>
    /\ H24(allTokens[2], "volume") = H24(allTokens[3], "volume")
    /\ Len(filtered) = 3
    /\ filtered[1].address = <<"a", "2">>
    /\ filtered[2].address = <<"a", "3">>
    /\ filtered[3].address = <<"a", "4">>

\* C7: with no quick filter and the default advanced filters the output has
\* as many elements as the input and is the input sorted by descending volume.
C7_DefaultsPassThrough ==
    (Filtered /\ filters = {} /\ advancedFilters = DefaultAdvancedFilters) =>
        /\ Len(filtered) = Len(allTokens)
        /\ \A t \in FilterTokens : Count(filtered, t) = Count(allTokens, t)
        /\ \A i, j \in 1..Len(filtered) :
              i < j => H24(filtered[i], "volume") >= H24(filtered[j], "volume")

\* C8: filtering the result of a filter again with the same parameters
\* returns the same sequence, also when filteredResults re-filters the list
\* applyFilters produced.
C8_Idempotent ==
    Filtered =>
        /\ filteredResults(filtered, filters, advancedFilters) = filtered
        /\ pc = "applyFilters" =>
              applyFilters(filtered, filters, advancedFilters) = filtered

----------------------------------------------------------------------------
(* Chain interleaver: interleavePairs, src/components/screens/DashboardScreen.tsx *)

MaxTagged == 6
MaxPerChain == 3

\* while (added && result.length < 16)
MaxInterleaved == 16

\* the chain list the dashboard passes, line 357
DashboardChains ==
    <<"solana", "ETH", "bsc", "polygon", "arbitrum", "avalanche", "optimism", "base">>

\* lines 141-145: grouped[chain] = [] for every chain of the list, then every
\* pair whose _chain is a key of grouped is pushed to its group
RECURSIVE GroupPairs(_, _)
GroupPairs(prs, chains) ==
    IF prs = <<>> THEN [c \in SeqToSet(chains) |-> <<>>]
    ELSE LET grouped == GroupPairs(SubSeq(prs, 1, Len(prs) - 1), chains)
             pair == prs[Len(prs)]
         IN  IF pair._chain \in DOMAIN grouped
             THEN [grouped EXCEPT ![pair._chain] = Append(@, pair)]
             ELSE grouped

\* a sweep that walks the chain list backwards
RECURSIVE SweepBackwards(_, _, _)
SweepBackwards(grouped, chains, i) ==
    IF chains = <<>> THEN <<>>
    ELSE SweepBackwards(grouped, Tail(chains), i)
         \o (IF i + 1 <= Len(grouped[Head(chains)])
             THEN <<grouped[Head(chains)][i + 1]>> ELSE <<>>)

\* lines 151-156: what one pass of the for loop pushes, i counted from 0
RECURSIVE Sweep(_, _, _)
Sweep(grouped, chains, i) ==
    IF chains = <<>> THEN <<>>
    ELSE (IF i + 1 <= Len(grouped[Head(chains)])
          THEN <<grouped[Head(chains)][i + 1]>> ELSE <<>>)
         \o Sweep(grouped, Tail(chains), i)

\* lines 147-158: the while loop
RECURSIVE InterleaveLoop(_, _, _, _, _)
InterleaveLoop(grouped, chains, res, added, i) ==
    IF added /\ Len(res) < MaxInterleaved
    THEN LET pushed == Sweep(grouped, chains, i)
         IN  InterleaveLoop(grouped, chains, res \o pushed, pushed # <<>>, i + 1)
    ELSE res

interleavePairs(prs, chains) ==
    InterleaveLoop(GroupPairs(prs, chains), chains, <<>>, TRUE, 0)

\* a pair is told from the others by its position in the list
TagPairs(tags) == [i \in 1..Len(tags) |-> [_chain |-> tags[i], pairAddress |-> ToString(i)]]

ChainTags == {"A", "B", "C", "X"}

ChainLists == { <<"A", "B", "C">>, <<"C", "A">> }

RECURSIVE Repeat(_, _)
Repeat(tag, n) == IF n = 0 THEN <<>> ELSE <<tag>> \o Repeat(tag, n - 1)

\* lines 98-123: every chain sends the same query; a request that fails
\* contributes no pair, one that succeeds contributes the n valid pairs of
\* the answer, tagged with its chain; the results are merged in chain order
RECURSIVE MergeResults(_, _, _)
MergeResults(chains, succeeded, n) ==
    IF chains = <<>> THEN <<>>
    ELSE Repeat(Head(chains), IF Head(chains) \in succeeded THEN n ELSE 0)
         \o MergeResults(Tail(chains), succeeded, n)

InitInter ==
    /\ \/ /\ blockchains \in ChainLists
          /\ \E n \in 0..MaxTagged : \E tags \in [1..n -> ChainTags] :
                trendingPairs = TagPairs(tags)
       \/ /\ blockchains = DashboardChains
          /\ \E succeeded \in SUBSET SeqToSet(DashboardChains) : \E n \in 1..MaxPerChain :
                trendingPairs = TagPairs(MergeResults(DashboardChains, succeeded, n))
    /\ result = <<>>
    /\ IdleStore /\ IdleAgg /\ IdleFilter /\ IdleAsync
    /\ pc = "ready"

InterleaveCall ==
    /\ pc = "ready"
    /\ result' = interleavePairs(trendingPairs, blockchains)
    /\ pc' = "interleaved"
    /\ UNCHANGED <<trendingPairs, blockchains, storeVars, aggVars, filterVars, asyncVars>>

NextInter == InterleaveCall

SpecInter == InitInter /\ [][NextInter]_vars

GroupOf(chain) == SelectSeq(trendingPairs, LAMBDA p : p._chain = chain)

\* the i-th pair (i from 1) of every listed chain that has one, in list order
SweepOf(i) ==
    LET cs == SelectSeq(blockchains, LAMBDA c : Len(GroupOf(c)) >= i)
    IN  [k \in 1..Len(cs) |-> GroupOf(cs[k])[i]]

RECURSIVE Rounds(_)
Rounds(k) == IF k = 0 THEN <<>> ELSE Rounds(k - 1) \o SweepOf(k)

Depth ==
    LET lens == {Len(GroupOf(blockchains[k])) : k \in 1..Len(blockchains)}
    IN  CHOOSE d \in lens : \A e \in lens : e <= d

\* C9 as stated: the output is the concatenation of all the sweeps.
C9_AllSweeps ==
    pc = "interleaved" => result = Rounds(Depth)

IsPrefix(a, b) == Len(a) <= Len(b) /\ a = SubSeq(b, 1, Len(a))

\* C9 as amended: the output is a prefix of the concatenation of the sweeps,
\* and it is the whole concatenation when that has at most 16 elements.
C9_SweepsUntilCap ==
    pc = "interleaved" =>
        /\ IsPrefix(result, Rounds(Depth))
        /\ Len(Rounds(Depth)) <= 16 => result = Rounds(Depth)

C9_Witness ==
    /\ pc = "interleaved"
    /\ blockchains = <<"A", "B", "C">>
    /\ trendingPairs = TagPairs(<<"A", "A", "B", "C", "C", "C">>)
    /\ result = [k \in 1..6 |-> trendingPairs[<<1, 3, 4, 2, 5, 6>>[k]]]

\* C10: the output of interleavePairs has at most 16 elements.
C10_AtMostSixteen ==
    pc = "interleaved" => Len(result) <= 16

----------------------------------------------------------------------------
(* Search screen: loadTokens and the effect that calls it,                 *)
(* src/unnamed/part_000 lines 198-244                                      *)

MaxLoads == 3

\* String.prototype.trim on texts whose only white space is the blank
RECURSIVE TrimStart(_)
TrimStart(s) == IF s # <<>> /\ Head(s) = " " THEN TrimStart(Tail(s)) ELSE s

RECURSIVE TrimEnd(_)
TrimEnd(s) ==
    IF s # <<>> /\ s[Len(s)] = " " THEN TrimEnd(SubSeq(s, 1, Len(s) - 1)) ELSE s

Trim(s) == TrimEnd(TrimStart(s))

\* popularQueries, line 211
PopularQueries ==
    << <<"B", "T", "C">>, <<"E", "T", "H">>, <<"S", "O", "L">>,
       <<"B", "N", "B">>, <<"U", "S", "D", "C">>, <<"U", "S", "D", "T">> >>

\* the texts the debounced search field takes
QueryTexts == { <<>>, <<" ">>, <<"b", "t", "c">>, <<"d", "o", "g">> }

ErrorMessage == "Failed to load tokens. Please try again."

SearchPair(address, symbol, n) ==
    [baseToken |-> [address |-> address, symbol |-> symbol],
     pairAddress |-> ToString(n), priceUsd |-> <<ToString(n)>>,
     volume |-> [h24 |-> 10 * n], liquidity |-> [usd |-> 100 * n]]

\* result.pairs of a dexAPI.searchPairs(q) that is fulfilled
RemotePairs(q) ==
    CASE q = <<"B", "T", "C">> -> << SearchPair(<<"A", "b">>, "WBTC", 1) >>
      [] q = <<"b", "t", "c">> -> << SearchPair(<<"A", "b">>, "WBTC", 1),
                                     SearchPair(<<"a", "b">>, "WBTC", 2) >>
      [] q = <<"E", "T", "H">> -> << SearchPair(<<"c", "d">>, "WETH", 3) >>
      [] q = <<"U", "S", "D", "T">> ->
            << SearchPair(<<"A", "b">>, "WBTC", 4) @@ [quoteToken |-> [symbol |-> "USDT"]],
               SearchPair(<<"c", "d">>, "WETH", 5) >>
      [] OTHER -> <<>>

RECURSIVE Flat(_)
Flat(lists) == IF lists = <<>> THEN <<>> ELSE Head(lists) \o Flat(Tail(lists))

\* popularPairs.flat(): a search that is rejected is caught and gives []
PopularPairs(fulfilled) ==
    Flat([i \in 1..Len(PopularQueries) |->
            IF i \in fulfilled THEN RemotePairs(PopularQueries[i]) ELSE <<>>])

\* the call of loadTokens made from the render that holds the debounced text
\* q and the quick filters names: the closure of lines 198-239
LoadCall(isRefresh, q, names) ==
    [seq |-> issued + 1, query |-> q, filters |-> names,
     advancedFilters |-> advancedFilters, isRefresh |-> isRefresh]

\* loadTokens up to its first await: lines 199-204 and the requests sent
StartLoad(isRefresh, q, names) ==
    /\ issued < MaxLoads
    /\ issued' = issued + 1
    /\ inflight' = inflight \cup {LoadCall(isRefresh, q, names)}
    /\ loading' = (IF isRefresh THEN loading ELSE TRUE)
    /\ refreshing' = (IF isRefresh THEN TRUE ELSE refreshing)
    /\ error' = ""

InitLoad ==
    /\ debouncedQuery = <<>>
    /\ inflight = {} /\ issued = 0
    /\ loading = FALSE /\ refreshing = FALSE /\ error = ""
    /\ settled = <<>>
    /\ allTokens = <<>> /\ filters = {} /\ advancedFilters = DefaultAdvancedFilters
    /\ filtered = <<>>
    /\ watchlist = <<>> /\ now = 0
    /\ IdleAgg /\ IdleInter /\ IdleCall /\ IdleBatch /\ IdlePersist
    /\ pc = "created"

loadKeeps == <<storeVars, aggVars, filtered, interVars, callVars, batchVars, persistVars>>

\* the effect of lines 242-244 on mount
Mount ==
    /\ pc = "created"
    /\ pc' = "mounted"
    /\ StartLoad(FALSE, debouncedQuery, filters)
    /\ UNCHANGED <<debouncedQuery, allTokens, filters, advancedFilters, settled, loadKeeps>>

\* the debounced text changes: loadTokens is recreated and the effect runs
DebouncedQueryChanges(q) ==
    /\ pc = "mounted"
    /\ q # debouncedQuery
    /\ debouncedQuery' = q
    /\ StartLoad(FALSE, q, filters)
    /\ UNCHANGED <<allTokens, filters, advancedFilters, settled, pc, loadKeeps>>

\* toggleFilter, lines 300-306: the new filters array recreates loadTokens
toggleFilter(name) ==
    /\ pc = "mounted"
    /\ filters' = (IF name \in filters THEN filters \ {name} ELSE filters \cup {name})
    /\ StartLoad(FALSE, debouncedQuery, filters')
    /\ UNCHANGED <<debouncedQuery, allTokens, advancedFilters, settled, pc, loadKeeps>>

\* the Retry button, lines 405-409
Retry ==
    /\ pc = "mounted"
    /\ error # ""
    /\ StartLoad(FALSE, debouncedQuery, filters)
    /\ UNCHANGED <<debouncedQuery, allTokens, filters, advancedFilters, settled, pc, loadKeeps>>

\* pull to refresh, line 507: the list is on screen
Refresh ==
    /\ pc = "mounted"
    /\ ~(loading /\ ~refreshing)
    /\ filteredResults(allTokens, filters, advancedFilters) # <<>>
    /\ StartLoad(TRUE, debouncedQuery, filters)
    /\ UNCHANGED <<debouncedQuery, allTokens, filters, advancedFilters, settled, pc, loadKeeps>>

\* What is known of the calls that have finished: seq and failed describe the
\* call that finished last, newest and tokens the finished call that was
\* issued last and the list it stored.
Finished(call, value, allFailed) ==
    LET before == IF settled = <<>> THEN [newest |-> 0, tokens |-> <<>>] ELSE settled
    IN  [seq |-> call.seq, failed |-> allFailed,
         newest |-> IF call.seq > before.newest THEN call.seq ELSE before.newest,
         tokens |-> IF call.seq > before.newest THEN value ELSE before.tokens]

\* lines 228-231 and the finally block, after the requests of a call settle
LoadSucceeds(call, loaded, allFailed) ==
    LET value == applyFilters(transformPairsToTokens(loaded),
                              call.filters, call.advancedFilters)
    IN  /\ allTokens' = value
        /\ loading' = FALSE
        /\ refreshing' = FALSE
        /\ settled' = Finished(call, value, allFailed)
        /\ UNCHANGED error

\* the catch block, lines 232-234, and the finally block
LoadFails(call) ==
    /\ allTokens' = <<>>
    /\ error' = ErrorMessage
    /\ loading' = FALSE
    /\ refreshing' = FALSE
    /\ settled' = Finished(call, <<>>, TRUE)

\* Promise.all of the six popular searches resolves, lines 212-222
PopularSettles(call) ==
    /\ call \in inflight
    /\ Trim(call.query) = <<>>
    /\ inflight' = inflight \ {call}
    /\ \E fulfilled \in SUBSET (1..Len(PopularQueries)) :
          LoadSucceeds(call, PopularPairs(fulfilled), fulfilled = {})
    /\ UNCHANGED <<debouncedQuery, issued, filters, advancedFilters, pc, loadKeeps>>

\* dexAPI.searchPairs(debouncedQuery) is fulfilled, lines 224-225
SearchFulfilled(call) ==
    /\ call \in inflight
    /\ Trim(call.query) # <<>>
    /\ inflight' = inflight \ {call}
    /\ LoadSucceeds(call, RemotePairs(call.query), FALSE)
    /\ UNCHANGED <<debouncedQuery, issued, filters, advancedFilters, pc, loadKeeps>>

\* dexAPI.searchPairs(debouncedQuery) is rejected
SearchRejected(call) ==
    /\ call \in inflight
    /\ Trim(call.query) # <<>>
    /\ inflight' = inflight \ {call}
    /\ LoadFails(call)
    /\ UNCHANGED <<debouncedQuery, issued, filters, advancedFilters, pc, loadKeeps>>

LoadFilterNames == {"High Volume"}

NextLoad ==
    \/ Mount
    \/ \E q \in QueryTexts : DebouncedQueryChanges(q)
    \/ \E name \in LoadFilterNames : toggleFilter(name)
    \/ Retry
    \/ Refresh
    \/ \E call \in inflight : PopularSettles(call)
    \/ \E call \in inflight : SearchFulfilled(call)
    \/ \E call \in inflight : SearchRejected(call)

SpecLoad == InitLoad /\ [][NextLoad]_vars

\* C11: last request wins.  Once no call of loadTokens is waiting, the list
\* in allTokens is the one produced by the most recently issued call.
C11_LastRequestWins ==
    (issued > 0 /\ inflight = {}) =>
        /\ settled.newest = issued
        /\ allTokens = settled.tokens

\* C13: when every remote query of the load that finished last failed, the
\* screen shows the failure: the error is set, which tells this state from
\* loading and from a load that found nothing.
C13_FailureIsFlagged ==
    (inflight = {} /\ settled # <<>> /\ settled.seq = issued /\ settled.failed)
        => /\ error # ""
           /\ ~loading

\* C24: loading is true whenever a non-refresh loadTokens fetch is in flight,
\* the completion of one fetch leaving it true while another is pending, and
\* once every fetch has settled loading and refreshing are both false.
C24_LoadingWhilePending ==
    /\ (\E call \in inflight : ~call.isRefresh) => loading
    /\ (inflight = {} /\ issued > 0) => (~loading /\ ~refreshing)

----------------------------------------------------------------------------
(* The three Promise.all batches: the popular searches of loadTokens        *)
(* (part_000 211-222), the per-chain searches of fetchTrendingPairs and the *)
(* two boosted-token requests of fetchBoostedTokens (DashboardScreen.tsx)   *)

BatchKinds == {"popular", "trending", "boosted"}

\* blockchains, DashboardScreen.tsx lines 88-97
FetchChains ==
    <<"solana", "ETH", "bsc", "polygon", "arbitrum", "avalanche", "optimism", "base">>

\* the query of every entry of blockchains
ChainQuery == <<"U", "S", "D", "T">>

\* what getLatestBoostedTokens and getTopBoostedTokens answer
LatestBoosted == << [tokenAddress |-> "0xL1", amount |-> 1] >>
TopBoosted == << [tokenAddress |-> "0xT1", amount |-> 2], [amount |-> 3] >>

\* the number of requests a batch sends
RequestCount(kind) ==
    CASE kind = "popular" -> Len(PopularQueries)
      [] kind = "trending" -> Len(FetchChains)
      [] kind = "boosted" -> 2

\* the value request i of the batch is fulfilled with
Answer(kind, i) ==
    CASE kind = "popular" -> RemotePairs(PopularQueries[i])
      [] kind = "trending" -> RemotePairs(ChainQuery)
      [] kind = "boosted" -> IF i = 1 THEN LatestBoosted ELSE TopBoosted

\* the promise of request i: pending, fulfilled with a value, or rejected
RequestPromise(kind, i) ==
    CASE outcomes[i].status = "fulfilled" ->
            [status |-> "fulfilled", value |-> Answer(kind, i), rank |-> outcomes[i].rank]
      [] outcomes[i].status = "rejected" ->
            [status |-> "rejected", value |-> <<>>, rank |-> 0]
      [] OTHER -> [status |-> "pending", value |-> <<>>, rank |-> 0]

\* a request promise without a rejection handler
Uncaught(promise) == promise

\* catch { return [] }, .catch(() => []), .catch(() => ({chain, pairs: []}))
CatchEmpty(promise) ==
    IF promise.status = "rejected" THEN [promise EXCEPT !.status = "fulfilled"]
    ELSE promise

\* lines 106-108: the pairs with pairAddress, baseToken and quoteToken, tagged
ValidTagged(ps, chain) ==
    LET valid == SelectSeq(ps, LAMBDA pair :
                     /\ Has(pair, "pairAddress") /\ pair.pairAddress # ""
                     /\ Has(pair, "baseToken") /\ Has(pair, "quoteToken"))
    IN  [k \in 1..Len(valid) |-> valid[k] @@ [_chain |-> chain]]

\* the fulfilment handler of request i
ThenHandler(kind, i, promise) ==
    IF promise.status = "fulfilled" /\ kind = "trending"
    THEN [promise EXCEPT !.value = ValidTagged(promise.value, FetchChains[i])]
    ELSE promise

\* the promise request i hands to Promise.all
Guarded(kind, i) == CatchEmpty(ThenHandler(kind, i, RequestPromise(kind, i)))

\* the values of the promises in the order in which they were settled
RECURSIVE ByArrival(_, _)
ByArrival(promises, left) ==
    IF left = {} THEN <<>>
    ELSE LET i == CHOOSE a \in left : \A b \in left :
                      \/ promises[a].rank < promises[b].rank
                      \/ promises[a].rank = promises[b].rank /\ a <= b
         IN  <<promises[i].value>> \o ByArrival(promises, left \ {i})

\* a join that collects the values as they arrive
PromiseAllByArrival(promises) ==
    IF \E i \in 1..Len(promises) : promises[i].status = "rejected"
    THEN [status |-> "rejected", value |-> <<>>]
    ELSE IF \A i \in 1..Len(promises) : promises[i].status = "fulfilled"
    THEN [status |-> "fulfilled", value |-> ByArrival(promises, 1..Len(promises))]
    ELSE [status |-> "pending", value |-> <<>>]

\* Promise.all: rejected as soon as one promise is, fulfilled when all are
PromiseAll(promises) ==
    IF \E i \in 1..Len(promises) : promises[i].status = "rejected"
    THEN [status |-> "rejected", value |-> <<>>]
    ELSE IF \A i \in 1..Len(promises) : promises[i].status = "fulfilled"
    THEN [status |-> "fulfilled", value |-> [i \in 1..Len(promises) |-> promises[i].value]]
    ELSE [status |-> "pending", value |-> <<>>]

BatchPromise == PromiseAll([i \in 1..RequestCount(batch) |-> Guarded(batch, i)])

Slice(list, n) == SubSeq(list, 1, IF Len(list) < n THEN Len(list) ELSE n)

BoostedId(index) ==
    CASE index = 0 -> "boosted-0" [] index = 1 -> "boosted-1"
      [] index = 2 -> "boosted-2" [] OTHER -> "boosted-3"

\* lines 56-74 without the display texts and the Math.random() figures
TransformBoosted(list) ==
    [k \in 1..Len(list) |->
        [id |-> IF Has(list[k], "tokenAddress") THEN list[k].tokenAddress
                ELSE BoostedId(k - 1),
         chainId |-> "ethereum", boosted |-> TRUE]
        @@ Copy("address", list[k], "tokenAddress")
        @@ list[k]]

\* what the batch hands to its state setters once Promise.all is fulfilled
Stored(kind, values) ==
    CASE kind = "popular" ->
            [allTokens |-> applyFilters(transformPairsToTokens(Flat(values)),
                                        {}, DefaultAdvancedFilters)]
      [] kind = "trending" -> [trendingPairs |-> Flat(values)]
      [] kind = "boosted" ->
            LET transformedTokens == TransformBoosted(values[2] \o values[1])
            IN  [boostedTokens |-> Slice(transformedTokens, 10),
                 topTokens |-> Slice(transformedTokens, 8)]

\* what the catch block of the batch stores
StoredOnError(kind) ==
    CASE kind = "popular" -> [allTokens |-> <<>>]
      [] kind = "trending" -> [trendingPairs |-> <<>>]
      [] kind = "boosted" -> <<>>

InitBatch ==
    /\ batch \in BatchKinds
    /\ outcomes = <<>>
    /\ stored = <<>>
    /\ watchlist = <<>> /\ now = 0
    /\ IdleAgg /\ IdleFilter /\ IdleInter /\ IdleCall /\ IdleLoad /\ IdlePersist
    /\ pc = "ready"

batchKeeps ==
    <<batch, storeVars, aggVars, filterVars, interVars, callVars,
      debouncedQuery, inflight, issued, refreshing, settled, persistVars>>

\* the function up to its await: the requests are sent
SendRequests ==
    /\ pc = "ready"
    /\ outcomes' = [i \in 1..RequestCount(batch) |-> [status |-> "pending", rank |-> 0]]
    /\ loading' = (batch # "trending")
    /\ pc' = "waiting"
    /\ UNCHANGED <<stored, error, batchKeeps>>

RequestFulfilled(i) ==
    /\ pc = "waiting"
    /\ outcomes[i].status = "pending"
    /\ outcomes' = [outcomes EXCEPT ![i] =
          [status |-> "fulfilled",
           rank |-> 1 + Cardinality({j \in 1..Len(outcomes) :
                                        outcomes[j].status = "fulfilled"})]]
    /\ UNCHANGED <<stored, loading, error, pc, batchKeeps>>

RequestRejected(i) ==
    /\ pc = "waiting"
    /\ outcomes[i].status = "pending"
    /\ outcomes' = [outcomes EXCEPT ![i] = [status |-> "rejected", rank |-> 0]]
    /\ UNCHANGED <<stored, loading, error, pc, batchKeeps>>

\* the function after its await: the try block, or the catch block when
\* Promise.all is rejected, and the finally block
Resume ==
    /\ pc = "waiting"
    /\ LET joined == BatchPromise
       IN  /\ joined.status # "pending"
           /\ IF joined.status = "fulfilled"
              THEN /\ stored' = Stored(batch, joined.value)
                   /\ pc' = "stored"
                   /\ UNCHANGED error
              ELSE /\ stored' = StoredOnError(batch)
                   /\ pc' = "failed"
                   /\ error' = (IF batch = "popular" THEN ErrorMessage ELSE error)
    /\ loading' = FALSE
    /\ UNCHANGED <<outcomes, batchKeeps>>

NextBatch ==
    \/ SendRequests
    \/ \E i \in 1..Len(outcomes) : RequestFulfilled(i)
    \/ \E i \in 1..Len(outcomes) : RequestRejected(i)
    \/ Resume

SpecBatch == InitBatch /\ [][NextBatch]_vars

\* the answers of the requests, a rejected one counting as an empty list
AnswersOrEmpty ==
    [i \in 1..Len(outcomes) |->
        IF outcomes[i].status = "fulfilled" THEN Answer(batch, i) ELSE <<>>]

\* C12: in each of the three batches the rejection of any subset of the
\* requests gives an empty result for exactly those requests; the answers of
\* the others are merged in request order and stored, and the batch never
\* takes its failure path.
C12_FailureIsolated ==
    /\ pc # "failed"
    /\ pc = "stored" =>
          /\ \A i \in 1..Len(outcomes) : outcomes[i].status # "pending"
          /\ batch = "popular" =>
                stored.allTokens =
                    applyFilters(transformPairsToTokens(Flat(AnswersOrEmpty)),
                                 {}, DefaultAdvancedFilters)
          /\ batch = "trending" =>
                /\ Len(stored.trendingPairs) =
                      Cardinality({i \in 1..Len(outcomes) : outcomes[i].status = "fulfilled"})
                /\ \A k \in 1..Len(stored.trendingPairs) :
                      /\ outcomes[CHOOSE i \in 1..Len(FetchChains) :
                                     FetchChains[i] = stored.trendingPairs[k]._chain].status
                            = "fulfilled"
                      /\ stored.trendingPairs[k].pairAddress = "4"
                /\ \A k, l \in 1..Len(stored.trendingPairs) :
                      k < l =>
                        (CHOOSE i \in 1..Len(FetchChains) :
                            FetchChains[i] = stored.trendingPairs[k]._chain)
                        < (CHOOSE i \in 1..Len(FetchChains) :
                            FetchChains[i] = stored.trendingPairs[l]._chain)
          /\ batch = "boosted" =>
                /\ stored.topTokens = stored.boostedTokens
                /\ [k \in 1..Len(stored.boostedTokens) |-> stored.boostedTokens[k].amount]
                      = (IF outcomes[2].status = "fulfilled" THEN <<2, 3>> ELSE <<>>)
                        \o (IF outcomes[1].status = "fulfilled" THEN <<1>> ELSE <<>>)

C12_Witness ==
    /\ pc = "stored"
    /\ batch = "trending"
    /\ outcomes[1].status = "rejected" /\ outcomes[2].status = "fulfilled" /\ outcomes[8].status = "rejected"
    /\ Len(stored.trendingPairs) = 3
    /\ stored.trendingPairs[1]._chain = "ETH"

\* the lists the requests hand to the join, taken in request order
InRequestOrder ==
    [i \in 1..Len(outcomes) |->
        IF outcomes[i].status # "fulfilled" THEN <<>>
        ELSE IF batch = "trending" THEN ValidTagged(Answer(batch, i), FetchChains[i])
        ELSE Answer(batch, i)]

\* C22: the search screen's popular batch and the dashboard's trending batch
\* store nothing before every request of the batch has settled, and what
\* they store is computed from the answers merged in the fixed query or
\* chain order, whatever the order in which the requests completed.
C22_JoinedInRequestOrder ==
    /\ pc \in {"ready", "waiting"} => stored = <<>>
    /\ (pc = "stored" /\ batch \in {"popular", "trending"}) =>
          /\ \A i \in 1..RequestCount(batch) : outcomes[i].status \in {"fulfilled", "rejected"}
          /\ batch = "popular" =>
                stored = [allTokens |->
                            applyFilters(transformPairsToTokens(Flat(InRequestOrder)),
                                         {}, DefaultAdvancedFilters)]
          /\ batch = "trending" => stored = [trendingPairs |-> Flat(InRequestOrder)]

C22_Witness ==
    /\ pc = "stored"
    /\ batch = "trending"
    /\ \A i \in 1..Len(FetchChains) : outcomes[i].rank = Len(FetchChains) + 1 - i
    /\ Len(stored.trendingPairs) = Len(FetchChains)
    /\ \A k \in 1..Len(FetchChains) : stored.trendingPairs[k]._chain = FetchChains[k]

----------------------------------------------------------------------------
(* Persistence of the store: persist(..., {name, storage}) with            *)
(* createJSONStorage(() => AsyncStorage), src/lib/store.ts lines 28-76     *)

MaxPendingWrites == 2

\* name, line 72
StorageKey == "dex-screener-storage"

\* What setItem writes: the state without its functions, as JSON text.  The
\* values of the model (strings, integers, records, lists) are the ones
\* JSON.stringify and JSON.parse give back unchanged.
PersistedValue(list) ==
    [state |-> [topTokens |-> <<>>, watchlist |-> list, portfolioValue |-> 125430],
     version |-> 0]

\* a setItem that writes the entry the operation touched last, not the list
WriteOfLastEntry(list) ==
    [key |-> StorageKey,
     value |-> PersistedValue(IF list = <<>> THEN <<>> ELSE <<list[Len(list)]>>)]

\* the setItem call the wrapped set() makes after the state has changed
WriteOf(list) == [key |-> StorageKey, value |-> PersistedValue(list)]

\* the value AsyncStorage holds under a key, <<>> when there is none
StoredUnder(key) == IF key \in DOMAIN storage THEN storage[key] ELSE <<>>

PersistTokens == { [pairAddress |-> "0xP1"], [id |-> "t1", symbol |-> "SYM"] }

PersistIds == {"0xP1", "t1"}

\* the watchlists an earlier run of the application left in AsyncStorage
EarlierWatchlists ==
    { <<>>,
      << [id |-> "t1", symbol |-> "SYM", price |-> 0, priceChange24h |-> 0,
          volume24h |-> 0] >>,
      << [id |-> "0xP2", symbol |-> "UNKNOWN", price |-> 0, priceChange24h |-> 0,
          volume24h |-> 0, pairAddress |-> "0xP2"],
         [id |-> "t1", symbol |-> "SYM", price |-> 0, priceChange24h |-> 0,
          volume24h |-> 0] >> }

\* The store is created: the state is the initial state of lines 31-33 and
\* the middleware has asked AsyncStorage for the stored value, which arrives
\* later.  read is that value, early the ids added before it arrived and not
\* removed since, last what set the in-memory watchlist last.
InitPersist ==
    /\ watchlist = <<>>
    /\ now = 0
    /\ \/ storage = <<>>
       \/ \E list \in EarlierWatchlists : storage = (StorageKey :> PersistedValue(list))
    /\ pendingWrites = <<>>
    /\ hydration = [done |-> FALSE, read |-> StoredUnder(StorageKey),
                    early |-> {}, last |-> "create"]
    /\ IdleAgg /\ IdleFilter /\ IdleInter /\ IdleCall /\ IdleLoad /\ IdleBatch
    /\ pc = "persist"

persistKeeps == <<now, aggVars, filterVars, interVars, callVars, loadVars, batchVars, pc>>

\* addToWatchlist through the middleware: set() is followed by setItem()
addToWatchlistPersisted(token) ==
    /\ Len(AddResult(token)) <= MaxWatchlist
    /\ watchlist' = AddResult(token)
    /\ IF IsInWatchlist(TokenId(token))
       THEN UNCHANGED <<pendingWrites, hydration>>
       ELSE /\ Len(pendingWrites) < MaxPendingWrites
            /\ pendingWrites' = Append(pendingWrites, WriteOf(watchlist'))
            /\ hydration' = [hydration EXCEPT
                   !.early = IF hydration.done THEN @ ELSE @ \cup {TokenId(token)},
                   !.last = "operation"]
    /\ UNCHANGED <<storage, persistKeeps>>

\* removeFromWatchlist through the middleware: it calls set() in every case
removeFromWatchlistPersisted(tokenId) ==
    /\ Len(pendingWrites) < MaxPendingWrites
    /\ watchlist' = RemoveResult(tokenId)
    /\ pendingWrites' = Append(pendingWrites, WriteOf(watchlist'))
    /\ hydration' = [hydration EXCEPT !.early = @ \ {tokenId}, !.last = "operation"]
    /\ UNCHANGED <<storage, persistKeeps>>

\* AsyncStorage completes the oldest setItem
WriteCompletes ==
    /\ pendingWrites # <<>>
    /\ storage' = (Head(pendingWrites).key :> Head(pendingWrites).value) @@ storage
    /\ pendingWrites' = Tail(pendingWrites)
    /\ UNCHANGED <<watchlist, hydration, persistKeeps>>

\* The stored value arrives: merge is {...currentState, ...persistedState}.
\* Releases of the middleware differ in whether the merged state is written
\* back (writeBack) or only a migrated one.
Rehydrate(writeBack) ==
    /\ ~hydration.done
    /\ watchlist' = (IF hydration.read = <<>> THEN watchlist
                     ELSE hydration.read.state.watchlist)
    /\ hydration' = [hydration EXCEPT
           !.done = TRUE,
           !.last = IF hydration.read = <<>> THEN @ ELSE "rehydration"]
    /\ IF writeBack
       THEN pendingWrites' = Append(pendingWrites, WriteOf(watchlist'))
       ELSE UNCHANGED pendingWrites
    /\ UNCHANGED <<storage, persistKeeps>>

NextPersist ==
    \/ \E token \in PersistTokens : addToWatchlistPersisted(token)
    \/ \E tokenId \in PersistIds : removeFromWatchlistPersisted(tokenId)
    \/ WriteCompletes
    \/ \E writeBack \in BOOLEAN : Rehydrate(writeBack)

SpecPersist == InitPersist /\ [][NextPersist]_vars

NoUseWhileLoading ==
    (~hydration.done /\ hydration.read # <<>>
        /\ hydration.read.state.watchlist # <<>>)
    => (hydration.last = "create" /\ watchlist = <<>>)

\* once the stored value has arrived, the watchlist holds every entry that
\* was added before and not removed since
EarlyEntriesKept ==
    hydration.done =>
        \A tokenId \in hydration.early :
            \E i \in 1..Len(watchlist) : watchlist[i].id = tokenId

\* C15: the watchlist is rehydrated before the store is used: no add or
\* remove runs against the initial empty watchlist while a persisted one is
\* still loading, and the rehydration overwrites no entry the user added.
C15_RehydratedBeforeUse == NoUseWhileLoading /\ EarlyEntriesKept

====
